---------------------------- MODULE Spec2Model ----------------------------
(***************************************************************************)
(* A model of the vector index of py-obsidian-tools:                       *)
(*   src/src/libs/vectorstore/store.py    ObsidianVectorStore              *)
(*   src/src/libs/vectorstore/chunker.py  MarkdownChunker                  *)
(*                                                                         *)
(* The ChromaDB collection is a set of records keyed by id; every call of  *)
(* the storage engine (get, delete, add, count, query, delete_collection,  *)
(* get_or_create_collection) is one atomic step.  index_note and           *)
(* delete_note are executed step by step by tasks: slot 1 is the calling   *)
(* thread, the slots together are the threads of the ThreadPoolExecutor    *)
(* that _index_note_batch creates.                                         *)
(***************************************************************************)
EXTENDS Integers, Sequences, FiniteSets, TLC

\* ------------------------------------------------------------------ bounds

\* Longest note content, in characters.
MaxLen == 2

\* Largest modification time; 0 is the value used when the note has no stat.
MaxMtime == 1

\* Largest n_results handed to search / find_similar.
MaxLimit == 2

\* VectorConfig.chunk_size of the store, in characters.
ChunkSize == 1

\* Largest VectorConfig.batch_size of a store: the widest pool.
MaxBatch == 2

\* The distances that are converted to scores are this far apart, in
\* hundred-thousandths.
DistanceStep == 7

\* ------------------------------------------------------- program constants

\* search: n_results=min(n_results, 100)
SearchCap == 100

\* find_similar: n_results=min(n_results + 10, 60)
SimilarExtra == 10

SimilarCap == 60

\* preview = document[:200]
PreviewLen == 200

\* OllamaEmbeddingProvider.dimension: self._dimension or 768
OllamaFallback == 768

\* score=round(score, 4): a score is a number of ten-thousandths
ScoreUnits == 10000

\* A distance is a number of hundred-thousandths, one digit more than a score.
DistanceUnits == 10 * ScoreUnits

\* The cosine distances of the collection lie between 0 and 2; rounding
\* errors of the engine can put one slightly below 0.
MinDistance == 0 - 2 * DistanceStep

MaxDistance == 2 * DistanceUnits

\* ------------------------------------------------------------ value domains

\* A path is the sequence of its "/"-separated segments.
Paths == { <<"A.md">>, <<"d", "B.md">> }

Chars == { "x", " " }

Contents == UNION { [1..n -> Chars] : n \in 0..MaxLen }

Mtimes == 0..MaxMtime

Providers == { "default", "ollama", "openai", "google", "cohere" }

Slots == 1..MaxBatch

\* The notes handed to index_vault and incremental_update: contents of every
\* chunk count and a blank one, all modified at the same time.
RunContents == { [ i \in 1..n |-> "x" ] : n \in 0..MaxLen } \cup { << " " >> }

RunMtimes == { MaxMtime }

\* ----------------------------------------------------------------- helpers

Min(a, b) == IF a <= b THEN a ELSE b

Range(s) == { s[i] : i \in 1..Len(s) }

\* The sequences of k pairwise distinct elements of S.
RECURSIVE Arrangements(_, _)
Arrangements(S, k) ==
  IF k = 0 \/ S = {} THEN { << >> }
  ELSE UNION { { << x >> \o t : t \in Arrangements(S \ { x }, k - 1) } : x \in S }

\* The sequences that list every element of S exactly once.
Orderings(S) == Arrangements(S, Cardinality(S))

\* str.strip() leaves nothing.
Blank(s) == \A i \in 1..Len(s) : s[i] = " "

\* -------------------------------------------------------------- chunker.py

\* MarkdownSplitter(chunk_size).chunks(content): consecutive pieces of at
\* most chunk_size characters (the library is outside the repository; only its
\* size bound and its determinism are modelled).
RECURSIVE Splitter(_)
Splitter(content) ==
  IF Len(content) = 0 THEN << >>
  ELSE LET k == Min(ChunkSize, Len(content))
       IN  << SubSeq(content, 1, k) >> \o Splitter(SubSeq(content, k + 1, Len(content)))

\* MarkdownChunker.chunk
chunk(content) ==
  IF Len(content) = 0 \/ Blank(content) THEN << >>
  ELSE SelectSeq(Splitter(content), LAMBDA c : ~Blank(c))

\* ------------------------------------------------------------ the collection

\* chunk_id = f"{path}::{i}".  The text is injective in (path, i), because i is
\* printed as decimal digits: the id is modelled as the pair.
ChunkId(path, i) == << path, i >>

\* folder = str(Path(path).parent) if "/" in path or "\\" in path else ""
Folder(path) == IF Len(path) > 1 THEN SubSeq(path, 1, Len(path) - 1) ELSE << >>

\* The dimension property of the provider classes, with the default models
\* of VectorConfig (embeddings.py, lines 74-77, 126-129, 170-173, 216-219,
\* 259-262).
Dimension(p) ==
  CASE p = "default" -> 384
    [] p = "ollama"  -> 768
    [] p = "openai"  -> 1536
    [] p = "google"  -> 768
    [] p = "cohere"  -> 1024

\* The vector the embedding function of provider p returns for a document:
\* only the provider that computed it and its length are kept.
Embedding(p) == [ provider |-> p, dimension |-> Dimension(p) ]

\* Variant: the mtime of the note is not copied into the metadata.
NewRecordsNoMtime(path, chunks, mtime, by) ==
  { [ id |-> ChunkId(path, i - 1), path |-> path, folder |-> Folder(path),
      mtime |-> 0, chunk_index |-> i - 1, total_chunks |-> Len(chunks),
      doc |-> chunks[i], embedding |-> Embedding(by) ] : i \in 1..Len(chunks) }

\* index_note, lines 113-133: the ids, documents and metadatas prepared for
\* collection.add (the title, the stem of the path, is left out), with the
\* vectors that the embedding function of the collection, the one of provider
\* by, computes for the documents inside collection.add
NewRecords(path, chunks, mtime, by) ==
  { [ id |-> ChunkId(path, i - 1), path |-> path, folder |-> Folder(path),
      mtime |-> mtime, chunk_index |-> i - 1, total_chunks |-> Len(chunks),
      doc |-> chunks[i], embedding |-> Embedding(by) ] : i \in 1..Len(chunks) }

\* The storage engine takes vectors of one length per collection: those of
\* another length than the vectors it holds are refused.
DimensionFits(c, by) == \A r \in c : r.embedding.dimension = Dimension(by)

\* collection.get(where={"path": path}, include=[])["ids"]
IdsOfPath(c, path) == { r.id : r \in { x \in c : x.path = path } }

\* Variant: nothing is deleted.
CollectionDeleteNothing(c, ids) == c

\* Variant: only the first of the ids is deleted.
CollectionDeleteFirst(c, ids) ==
  IF ids = {} THEN c
  ELSE LET one == CHOOSE i \in ids : \A j \in ids : i[2] <= j[2]
       IN  { r \in c : r.id # one }

\* collection.delete(ids=ids)
CollectionDelete(c, ids) == { r \in c : r.id \notin ids }

\* collection.add(ids, documents, metadatas): a record whose id is already in
\* the collection is not added again.
CollectionAdd(c, recs) == c \cup { r \in recs : \A x \in c : x.id # r.id }

PathRecs(c, path) == { r \in c : r.path = path }

PathsOf(c) == { r.path : r \in c }


\* ------------------------------------------------------------------- state

VARIABLES
  provider,     \* vector_config.provider of the store
  embedding_provider,  \* the _dimension of the provider object of the store
  batch_size,   \* vector_config.batch_size of the store
  cmd,          \* the pyobsidian-index command in progress, or the last one
  collExists,   \* the named collection exists in the ChromaDB client
  coll,         \* the records of the collection
  task,         \* per slot: the index_note / delete_note call it is executing
  run,          \* the API call in progress on the calling thread
  out,          \* what the last completed call returned or raised
  pre,          \* history: the collection when the index_note call in progress began
  last,         \* history: the index_note call that returned last, with nothing after it
  cleared       \* history: clear_index was called and nothing was inserted since

vars == << provider, embedding_provider, batch_size, cmd, collExists, coll, task, run, out, pre, last, cleared >>

IdleTask ==
  [ pc |-> "idle", op |-> "none", path |-> << >>, content |-> << >>, mtime |-> 0,
    ids |-> {}, ret |-> 0 ]

\* kind: the call; n, nd: the lengths of its note list and of its delete list;
\* i: the notes collected so far; k: the size of the batch in the pool;
\* seen, seenDel, failed, lost, okChunks: history of the notes drawn so far, of
\* the paths whose embedding failed, of those among them that had chunks when
\* their index_note began, and of the chunks of the notes that succeeded;
\* progress: the calls of progress_callback made so far;
\* notes, done: history of the notes drawn so far and of the paths whose
\* index_note has ended, in the order in which they ended.
NoRun ==
  [ kind |-> "none", n |-> 0, i |-> 0, k |-> 0, nd |-> 0,
    total_notes |-> 0, total_chunks |-> 0, deleted |-> 0, errors |-> << >>,
    seen |-> {}, seenDel |-> {}, failed |-> {}, lost |-> {}, okChunks |-> 0,
    progress |-> << >>, notes |-> {}, done |-> << >> ]

NoOut == [ op |-> "none" ]

\* No command of the indexer has been started.  kind, force: the command and
\* its --force flag; key: the API key of the provider is set; pc: where it is; files, todo: the listed .md files and
\* those still to read; notes: the notes read, path -> mtime; adds, dels: the
\* paths of the notes and of the deletes handed to the store; exit: the exit
\* code (-1 until it returns); result: what the store returned, as printed;
\* unread, before: history of the files whose read failed and of the
\* collection when the command started.
NoCmd ==
  [ kind |-> "none", pc |-> "none", force |-> FALSE, key |-> TRUE, files |-> {}, todo |-> {},
    notes |-> << >>, adds |-> {}, dels |-> {}, exit |-> -1, result |-> NoOut,
    unread |-> {}, before |-> {} ]

\* A query or a run has returned: out holds what it returned or raised.
Returned == [ NoRun EXCEPT !.kind = "returned" ]

NoLast == [ valid |-> FALSE ]

\* OllamaEmbeddingProvider.__init__: self._dimension = None (0 here); first:
\* history, the length of the first non-empty vector that an embed call of
\* this object received, 0 before.  The other providers keep no state.
NewProvider == [ dimension |-> 0, first |-> 0 ]

\* Variant: the length of every non-empty vector is remembered.
SetDimensionAlways(d, embedding) == IF embedding # 0 THEN embedding ELSE d

\* embed_documents, lines 112-113: if self._dimension is None and embedding:
\* self._dimension = len(embedding); the vector is given by its length
SetDimension(d, embedding) == IF d = 0 /\ embedding # 0 THEN embedding ELSE d

\* The provider object after a response with a vector was received.
Receive(ep, embedding) ==
  [ dimension |-> SetDimension(ep.dimension, embedding),
    first |-> IF ep.first = 0 THEN embedding ELSE ep.first ]

\* OllamaEmbeddingProvider.dimension: return self._dimension or 768
DimensionOf(ep) == IF ep.dimension # 0 THEN ep.dimension ELSE OllamaFallback

InitStore ==
  /\ embedding_provider = NewProvider
  /\ cmd = NoCmd
  /\ collExists = FALSE
  /\ coll = {}
  /\ task = [ s \in Slots |-> IdleTask ]
  /\ run = NoRun
  /\ out = NoOut
  /\ pre = {}
  /\ last = NoLast
  /\ cleared = FALSE

\* A store with the default provider, which never reads batch_size.
Init ==
  /\ provider = "default"
  /\ batch_size = MaxBatch
  /\ InitStore

\* A store with any of the providers and any batch_size.
InitAnyProvider ==
  /\ provider \in Providers
  /\ batch_size \in 1..MaxBatch
  /\ InitStore

\* A task at the first line of index_note(path, content, mtime).
IndexTask(path, content, mtime) ==
  [ pc |-> "start", op |-> "index", path |-> path, content |-> content,
    mtime |-> mtime, ids |-> {}, ret |-> 0 ]

\* A task at the first line of delete_note(path).
DeleteTask(path) ==
  [ pc |-> "find", op |-> "delete", path |-> path, content |-> << >>,
    mtime |-> 0, ids |-> {}, ret |-> 0 ]

\* ------------------------------------------------ the steps of a task

\* index_note, line 99: collection = self._get_collection()
GetCollection(s) ==
  /\ task[s].pc = "start"
  /\ collExists' = TRUE
  /\ task' = [ task EXCEPT ![s].pc = "find" ]
  /\ UNCHANGED << provider, embedding_provider, batch_size, cmd, coll, run, out, pre, last, cleared >>

\* delete_note, line 249: with ids found it goes on to delete them, else it
\* returns 0 (and index_note goes on to chunk the content)
AfterFind(t, ids) ==
  IF ids # {} THEN [ t EXCEPT !.ids = ids, !.pc = "del" ]
  ELSE IF t.op = "index" THEN [ t EXCEPT !.pc = "add" ]
  ELSE [ t EXCEPT !.pc = "ok", !.ret = 0 ]

\* delete_note, lines 241-247: _get_collection(), collection.get(where path)
FindChunks(s) ==
  /\ task[s].pc = "find"
  /\ collExists' = TRUE
  /\ task' = [ task EXCEPT ![s] = AfterFind(task[s], IdsOfPath(coll, task[s].path)) ]
  /\ UNCHANGED << provider, embedding_provider, batch_size, cmd, coll, run, out, pre, last, cleared >>

\* Variant: index_note returns with the count of delete_note.
AfterDeleteReturns(t) == [ t EXCEPT !.pc = "ok", !.ret = Cardinality(t.ids) ]

\* delete_note, line 251: return len(ids); index_note, line 102, drops the
\* count and goes on
AfterDelete(t) ==
  IF t.op = "index" THEN [ t EXCEPT !.pc = "add" ]
  ELSE [ t EXCEPT !.pc = "ok", !.ret = Cardinality(t.ids) ]

\* delete_note, line 250: collection.delete(ids)
DeleteChunks(s) ==
  /\ task[s].pc = "del"
  /\ coll' = CollectionDelete(coll, task[s].ids)
  /\ task' = [ task EXCEPT ![s] = AfterDelete(task[s]) ]
  /\ UNCHANGED << provider, embedding_provider, batch_size, cmd, collExists, run, out, pre, last, cleared >>

\* index_note, lines 105-107: no chunks, return 0
ReturnNoChunks(s) ==
  /\ task[s].pc = "add"
  /\ chunk(task[s].content) = << >>
  /\ task' = [ task EXCEPT ![s].pc = "ok", ![s].ret = 0 ]
  /\ run' = [ run EXCEPT !.done = Append(@, task[s].path) ]
  /\ UNCHANGED << provider, embedding_provider, batch_size, cmd, collExists, coll, out, pre, last, cleared >>

\* index_note, lines 109-134: collection.add embeds the documents and inserts
\* the records; return len(chunks).  The Ollama provider remembers the length
\* of the vectors (embeddings.py, lines 112-113).
AddChunks(s) ==
  /\ task[s].pc = "add"
  /\ chunk(task[s].content) # << >>
  /\ DimensionFits(coll, provider)
  /\ coll' = CollectionAdd(coll, NewRecords(task[s].path, chunk(task[s].content),
                                            task[s].mtime, provider))
  /\ task' = [ task EXCEPT ![s].pc = "ok", ![s].ret = Len(chunk(task[s].content)) ]
  /\ run' = [ run EXCEPT !.okChunks = @ + Len(chunk(task[s].content)),
                         !.done = Append(@, task[s].path) ]
  /\ cleared' = FALSE
  /\ embedding_provider' = IF provider = "ollama"
                           THEN Receive(embedding_provider, Dimension(provider))
                           ELSE embedding_provider
  /\ UNCHANGED << provider, batch_size, cmd, collExists, out, pre, last >>

\* Variant: the records are inserted before the exception leaves index_note.
EmbedFailsAfterAdd(s) ==
  /\ task[s].pc = "add"
  /\ chunk(task[s].content) # << >>
  /\ coll' = CollectionAdd(coll, NewRecords(task[s].path, chunk(task[s].content),
                                            task[s].mtime, provider))
  /\ task' = [ task EXCEPT ![s].pc = "err" ]
  /\ run' = [ run EXCEPT !.failed = @ \cup { task[s].path },
                         !.lost = @ \cup IF task[s].ids # {} THEN { task[s].path } ELSE {},
                         !.done = Append(@, task[s].path) ]
  /\ UNCHANGED << provider, embedding_provider, batch_size, cmd, collExists, out, pre, last, cleared >>

\* index_note, line 133: the embedding function raises inside collection.add;
\* nothing is inserted and the exception leaves index_note
EmbedFails(s) ==
  /\ task[s].pc = "add"
  /\ chunk(task[s].content) # << >>
  /\ task' = [ task EXCEPT ![s].pc = "err" ]
  /\ run' = [ run EXCEPT !.failed = @ \cup { task[s].path },
                         !.lost = @ \cup IF task[s].ids # {} THEN { task[s].path } ELSE {},
                         !.done = Append(@, task[s].path) ]
  /\ UNCHANGED << provider, embedding_provider, batch_size, cmd, collExists, coll, out, pre, last, cleared >>

\* index_note, line 133: the storage engine refuses vectors whose length is
\* not that of the collection; nothing is inserted and the exception leaves
\* index_note
AddRejected(s) ==
  /\ task[s].pc = "add"
  /\ chunk(task[s].content) # << >>
  /\ ~DimensionFits(coll, provider)
  /\ task' = [ task EXCEPT ![s].pc = "err" ]
  /\ run' = [ run EXCEPT !.done = Append(@, task[s].path) ]
  /\ UNCHANGED << provider, embedding_provider, batch_size, cmd, collExists, coll, out, pre, last, cleared >>

TaskStep(s) ==
  \/ GetCollection(s)
  \/ FindChunks(s)
  \/ DeleteChunks(s)
  \/ ReturnNoChunks(s)
  \/ AddChunks(s)
  \/ EmbedFails(s)

Finished(s) == task[s].pc \in { "ok", "err" }

AllIdle == \A s \in Slots : task[s].pc = "idle"

\* ------------------------------------------- direct calls of the store API

SameCall(l, path, content, mtime) ==
  l.valid /\ l.path = path /\ l.content = content /\ l.mtime = mtime

\* index_note(path, content, mtime) called on the calling thread
CallIndexNote(path, content, mtime) ==
  /\ run.kind = "none"
  /\ run' = [ NoRun EXCEPT !.kind = "index_note" ]
  /\ task' = [ task EXCEPT ![1] = IndexTask(path, content, mtime) ]
  /\ pre' = coll
  /\ out' = NoOut
  /\ last' = IF SameCall(last, path, content, mtime) THEN last ELSE NoLast
  /\ UNCHANGED << provider, embedding_provider, batch_size, cmd, collExists, coll, cleared >>

\* index_note returns its chunk count, or the embedding error leaves it
ReturnIndexNote ==
  /\ run.kind = "index_note"
  /\ Finished(1)
  /\ last' = IF task[1].pc = "ok"
             THEN [ valid |-> TRUE, path |-> task[1].path, content |-> task[1].content,
                    mtime |-> task[1].mtime, ret |-> task[1].ret, coll |-> coll ]
             ELSE NoLast
  /\ run' = NoRun
  /\ task' = [ task EXCEPT ![1] = IdleTask ]
  /\ pre' = {}
  /\ UNCHANGED << provider, embedding_provider, batch_size, cmd, collExists, coll, out, cleared >>

\* delete_note(path) called on the calling thread
CallDeleteNote(path) ==
  /\ run.kind = "none"
  /\ run' = [ NoRun EXCEPT !.kind = "delete_note" ]
  /\ task' = [ task EXCEPT ![1] = DeleteTask(path) ]
  /\ out' = NoOut
  /\ last' = NoLast
  /\ UNCHANGED << provider, embedding_provider, batch_size, cmd, collExists, coll, pre, cleared >>

ReturnDeleteNote ==
  /\ run.kind = "delete_note"
  /\ Finished(1)
  /\ run' = NoRun
  /\ task' = [ task EXCEPT ![1] = IdleTask ]
  /\ UNCHANGED << provider, embedding_provider, batch_size, cmd, collExists, coll, out, pre, last, cleared >>

\* clear_index: delete_collection; the error of a missing collection is swallowed
ClearIndex ==
  /\ run.kind = "none"
  /\ collExists' = FALSE
  /\ coll' = {}
  /\ last' = NoLast
  /\ cleared' = TRUE
  /\ UNCHANGED << provider, embedding_provider, batch_size, cmd, task, run, out, pre >>

\* The caller takes what the call returned or raised and goes on.
TakeResult ==
  /\ run.kind = "returned"
  /\ run' = NoRun
  /\ out' = NoOut
  /\ UNCHANGED << provider, embedding_provider, batch_size, cmd, collExists, coll, task, pre, last, cleared >>

\* ------------------------------------------------------------------ queries

\* embeddings.py: name and dimension are declared with @property in every
\* provider, so the attribute read by get_status is the str or the int itself
\* and not a method.
AttributeIsMethod(attr) == attr \notin { "name", "dimension" }

\* get_status, lines 269-285: count(), the distinct paths and the largest
\* mtime of the metadatas; "if last_mtime:" turns a largest mtime of 0 into no
\* date (-1 here)
StatusOf(c) ==
  LET last_mtime == IF c = {} THEN 0
                    ELSE CHOOSE m \in { r.mtime : r \in c } : \A r \in c : r.mtime <= m
  IN  [ total_documents |-> Cardinality(c),
        total_notes |-> Cardinality(PathsOf(c)),
        last_updated |-> IF last_mtime # 0 THEN last_mtime ELSE -1 ]

\* get_status: lines 287-295 call self._embedding_provider.name() and
\* .dimension(); calling a str or an int raises TypeError, which lines 296-297
\* turn into VectorStoreError
GetStatus ==
  /\ run.kind = "none"
  /\ collExists' = TRUE
  /\ out' = IF AttributeIsMethod("name") /\ AttributeIsMethod("dimension")
            THEN [ op |-> "get_status", raised |-> "none", status |-> StatusOf(coll),
                   before |-> coll ]
            ELSE [ op |-> "get_status", raised |-> "VectorStoreError", before |-> coll ]
  /\ run' = Returned
  /\ UNCHANGED << provider, embedding_provider, batch_size, cmd, coll, task, pre, last, cleared >>

\* round(x, 4) of a value x >= 0 given in hundred-thousandths: the nearest
\* ten-thousandth, the even one of two that are equally near
Round4(x) ==
  LET q == x \div 10
      d == x % 10
  IN  IF d < 5 THEN q
      ELSE IF d > 5 THEN q + 1
      ELSE IF q % 2 = 0 THEN q ELSE q + 1

\* max(0.0, min(1.0, x))
Clamp(x) == IF x < 0 THEN 0 ELSE IF x > DistanceUnits THEN DistanceUnits ELSE x

\* Variant: the difference is rounded as it is.
ScoreNoClamp(distance) ==
  IF DistanceUnits - distance >= 0 THEN Round4(DistanceUnits - distance)
  ELSE 0 - Round4(distance - DistanceUnits)

\* search lines 343 and 354, find_similar lines 423 and 430:
\* score = max(0.0, min(1.0, 1.0 - distance)), reported as round(score, 4)
Score(distance) == Round4(Clamp(DistanceUnits - distance))

\* The methods that convert distances to scores.
ScoreSites == { "search", "find_similar" }

\* search line 340, find_similar line 421: the distance of the next result
\* of collection.query; the distances are taken in steps from the smallest
QueryDistance(site) ==
  LET next == IF out.op = "none" THEN MinDistance ELSE out.distance + DistanceStep
  IN  /\ out.op \in { "none", "score" }
      /\ next <= MaxDistance
      /\ out' = [ op |-> "distance", site |-> site, distance |-> next ]
      /\ UNCHANGED << provider, embedding_provider, batch_size, cmd, collExists, coll, task, run, pre, last, cleared >>

\* search lines 343-354, find_similar lines 423-430: the score of the result
ConvertScore ==
  /\ out.op = "distance"
  /\ out' = [ op |-> "score", site |-> out.site, distance |-> out.distance,
              score |-> Score(out.distance) ]
  /\ UNCHANGED << provider, embedding_provider, batch_size, cmd, collExists, coll, task, run, pre, last, cleared >>

NextScore ==
  \/ \E site \in ScoreSites : QueryDistance(site)
  \/ ConvertScore

SpecScore == Init /\ [][NextScore]_vars

\* One VectorSearchResult (the score is derived from the distance, which the
\* ranking stands for; the title is the stem of the path).
ResultOf(r) ==
  [ path |-> r.path, folder |-> r.folder, chunk_index |-> r.chunk_index,
    total_chunks |-> r.total_chunks,
    content_preview |-> SubSeq(r.doc, 1, Min(PreviewLen, Len(r.doc))) ]

\* The folder argument of search: None, or a string (the empty string is << >>).
NoFolder == [ given |-> FALSE, value |-> << >> ]

FolderArgs ==
  { NoFolder } \cup { [ given |-> TRUE, value |-> f ] : f \in { Folder(p) : p \in Paths } \cup { <<"z">> } }

\* search, lines 322-325: where = {"folder": folder} "if folder"
WhereOf(folder) == IF folder.given /\ folder.value # << >> THEN folder ELSE NoFolder

\* The records a query with the where filter may return.
Matching(c, where) == IF where.given THEN { r \in c : r.folder = where.value } ELSE c

\* Variant: the count is not looked at.
SearchRaisesNever(c) == FALSE

\* search, lines 317-320: whether IndexNotFoundError is raised
SearchRaises(c) == Cardinality(c) = 0

\* search, lines 335-362: the results of collection.query, converted in rank order
SearchResults(ranked, n) ==
  [ i \in 1..Min(Min(n, SearchCap), Len(ranked)) |-> ResultOf(ranked[i]) ]

\* search(query, n_results, folder); the query text decides only the ranking,
\* which is any order of the matching records
Search(n, folder) ==
  /\ run.kind = "none"
  /\ collExists' = TRUE
  /\ \/ /\ SearchRaises(coll)
        /\ out' = [ op |-> "search", raised |-> "IndexNotFoundError", results |-> << >>,
                    folder |-> folder ]
     \/ /\ ~SearchRaises(coll)
        /\ out' = [ op |-> "search", raised |-> "EmbeddingProviderError", results |-> << >>,
                    folder |-> folder ]
     \/ /\ ~SearchRaises(coll)
        /\ \E ranked \in Arrangements(Matching(coll, WhereOf(folder)), Min(n, SearchCap)) :
             out' = [ op |-> "search", raised |-> "none",
                      results |-> SearchResults(ranked, n), folder |-> folder ]
  /\ run' = Returned
  /\ UNCHANGED << provider, embedding_provider, batch_size, cmd, coll, task, pre, last, cleared >>

\* find_similar, lines 404-439: skip the source note and the paths already
\* seen, stop at n_results
RECURSIVE SimilarLoop(_, _, _, _, _, _)
SimilarLoop(ranked, i, path, n, seen, acc) ==
  IF i > Len(ranked) THEN acc
  ELSE IF ranked[i].path = path \/ ranked[i].path \in seen
       THEN SimilarLoop(ranked, i + 1, path, n, seen, acc)
       ELSE IF Len(acc) + 1 >= n THEN Append(acc, ResultOf(ranked[i]))
            ELSE SimilarLoop(ranked, i + 1, path, n, seen \cup { ranked[i].path },
                             Append(acc, ResultOf(ranked[i])))

\* Variant: the paths already returned are not skipped.
SimilarResultsNoDedup(ranked, path, n) ==
  LET others == SelectSeq(ranked, LAMBDA r : r.path # path)
  IN  [ i \in 1..Min(n, Len(others)) |-> ResultOf(others[i]) ]

\* find_similar, lines 404-439
SimilarResults(ranked, path, n) == SimilarLoop(ranked, 1, path, n, {}, << >>)

\* find_similar, lines 386-389: the chunk_index-0 record of the source note
SourceChunks(c, path) == { r \in c : r.path = path /\ r.chunk_index = 0 }

\* find_similar(path, n_results): both errors are raised as IndexNotFoundError
\* (lines 380-383 and 391-392), with different texts; query is the record
\* whose stored embedding is the query vector (line 395), which decides only
\* the ranking, any order of the records (ranked: the result of the query)
FindSimilar(path, n) ==
  /\ run.kind = "none"
  /\ collExists' = TRUE
  /\ \/ /\ Cardinality(coll) = 0
        /\ out' = [ op |-> "find_similar", raised |-> "IndexNotFoundError",
                    message |-> "Vector index is empty", results |-> << >>,
                    path |-> path, n |-> n ]
     \/ /\ Cardinality(coll) # 0
        /\ SourceChunks(coll, path) = {}
        /\ out' = [ op |-> "find_similar", raised |-> "IndexNotFoundError",
                    message |-> "Note not found in index", results |-> << >>,
                    path |-> path, n |-> n ]
     \/ /\ Cardinality(coll) # 0
        /\ SourceChunks(coll, path) # {}
        /\ \E ranked \in Arrangements(coll, Min(n + SimilarExtra, SimilarCap)) :
             out' = [ op |-> "find_similar", raised |-> "none", message |-> "",
                      results |-> SimilarResults(ranked, path, n), path |-> path, n |-> n,
                      query |-> (CHOOSE r \in SourceChunks(coll, path) : TRUE).id,
                      ranked |-> ranked ]
  /\ run' = Returned
  /\ UNCHANGED << provider, embedding_provider, batch_size, cmd, coll, task, pre, last, cleared >>

\* get_indexed_notes_metadata: path -> mtime of the chunk_index-0 records
IndexedNotesMetadata(c) ==
  LET firsts == { r \in c : r.chunk_index = 0 }
  IN  [ p \in { r.path : r \in firsts } |-> (CHOOSE r \in firsts : r.path = p).mtime ]

\* detect_changes, line 472: the dict of the current notes (a later entry of a
\* path replaces the mtime of an earlier one; the keys keep first-seen order)
CurrentMtime(current_notes, path) ==
  LET at == { i \in 1..Len(current_notes) : current_notes[i].path = path }
  IN  current_notes[CHOOSE i \in at : \A j \in at : j <= i].mtime

CurrentKeys(current_notes) ==
  LET firstAt(i) == \A j \in 1..(i - 1) : current_notes[j].path # current_notes[i].path
      idx == SelectSeq([ i \in 1..Len(current_notes) |-> i ], firstAt)
  IN  [ k \in 1..Len(idx) |-> current_notes[idx[k]].path ]

\* Variant: an equal mtime counts as modified.
DetectChangesGreaterEqual(c, current_notes, indexedOrder) ==
  LET indexed == IndexedNotesMetadata(c)
      keys == CurrentKeys(current_notes)
  IN  [ new |-> SelectSeq(keys, LAMBDA p : p \notin DOMAIN indexed),
        modified |-> SelectSeq(keys, LAMBDA p : p \in DOMAIN indexed
                                  /\ CurrentMtime(current_notes, p) >= indexed[p]),
        deleted |-> SelectSeq(indexedOrder, LAMBDA p : p \notin Range(keys)) ]

\* detect_changes, lines 478-494; indexedOrder is the order in which the
\* storage engine listed the indexed paths
DetectChanges(c, current_notes, indexedOrder) ==
  LET indexed == IndexedNotesMetadata(c)
      keys == CurrentKeys(current_notes)
  IN  [ new |-> SelectSeq(keys, LAMBDA p : p \notin DOMAIN indexed),
        modified |-> SelectSeq(keys, LAMBDA p : p \in DOMAIN indexed
                                  /\ CurrentMtime(current_notes, p) > indexed[p]),
        deleted |-> SelectSeq(indexedOrder, LAMBDA p : p \notin Range(keys)) ]

\* The note lists cmd_update builds: one entry per listed file, so the paths
\* are pairwise distinct (indexer.py, lines 144-156).
CurrentNoteLists ==
  UNION { { [ i \in 1..Len(ps) |-> [ path |-> ps[i], mtime |-> ms[i] ] ] :
              ms \in [ 1..Len(ps) -> Mtimes ] } :
          ps \in UNION { Arrangements(Paths, k) : k \in 0..Cardinality(Paths) } }

DetectChangesCall(current_notes) ==
  /\ run.kind = "none"
  /\ collExists' = TRUE
  /\ \E indexedOrder \in Orderings(DOMAIN IndexedNotesMetadata(coll)) :
       out' = [ op |-> "detect_changes", current |-> current_notes, before |-> coll,
                changes |-> DetectChanges(coll, current_notes, indexedOrder) ]
  /\ run' = Returned
  /\ UNCHANGED << provider, embedding_provider, batch_size, cmd, coll, task, pre, last, cleared >>

\* --------------------------------------- index_vault, incremental_update

\* _is_external_api_provider
IsExternalApiProvider == provider \in { "openai", "google", "cohere" }

RunKinds == { "index_vault", "incremental_update" }

\* The note lists are those the indexer builds, one note per listed file: the
\* paths of a list are pairwise distinct.  A list is drawn note by note as the
\* run reaches it; run.seen holds the paths drawn so far.
ListLengths == 0..Cardinality(Paths)

\* index_vault(notes), lines 184-186
CallIndexVault(n) ==
  /\ run.kind = "none"
  /\ run' = [ NoRun EXCEPT !.kind = "index_vault", !.n = n ]
  /\ out' = NoOut
  /\ last' = NoLast
  /\ UNCHANGED << provider, embedding_provider, batch_size, cmd, collExists, coll, task, pre, cleared >>

\* incremental_update(notes_to_add, notes_to_delete), lines 512-518
CallIncrementalUpdate(n, nd) ==
  /\ run.kind = "none"
  /\ run' = [ NoRun EXCEPT !.kind = "incremental_update", !.n = n, !.nd = nd ]
  /\ out' = NoOut
  /\ last' = NoLast
  /\ UNCHANGED << provider, embedding_provider, batch_size, cmd, collExists, coll, task, pre, cleared >>

\* The list of notes of the run in progress holds a note of this path and
\* mtime: any note when the store API is called directly, a note that the
\* command fetched and handed over when a command of the indexer made the call.
InNotes(path, mtime) ==
  cmd.kind = "none" \/ (path \in cmd.adds /\ cmd.notes[path] = mtime)

\* Likewise for the paths of notes_to_delete.
InDeletes(path) == cmd.kind = "none" \/ path \in cmd.dels

\* One call of progress_callback(current, total, text): the text is the path
\* of the note, after "Deleted: " for a deleted one; current and total are
\* the place of the call and the length of the lists.
Progress(prefix, path) == [ prefix |-> prefix, path |-> path ]

\* incremental_update, lines 521-523: the next path of notes_to_delete
NextDelete(path) ==
  /\ run.kind = "incremental_update"
  /\ run.deleted < run.nd
  /\ task[1].pc = "idle"
  /\ path \notin run.seenDel
  /\ InDeletes(path)
  /\ task' = [ task EXCEPT ![1] = DeleteTask(path) ]
  /\ run' = [ run EXCEPT !.seenDel = @ \cup { path } ]
  /\ UNCHANGED << provider, embedding_provider, batch_size, cmd, collExists, coll, out, pre, last, cleared >>

\* incremental_update, lines 524-527: delete_note returned
CollectDelete ==
  /\ run.kind = "incremental_update"
  /\ task[1].op = "delete"
  /\ Finished(1)
  /\ run' = [ run EXCEPT !.deleted = @ + 1,
                         !.progress = Append(@, Progress("Deleted: ", task[1].path)) ]
  /\ task' = [ task EXCEPT ![1] = IdleTask ]
  /\ UNCHANGED << provider, embedding_provider, batch_size, cmd, collExists, coll, out, pre, last, cleared >>

\* Variant: the notes are indexed while paths are still to be deleted.
AddsPhaseAnyTime(kind) == run.kind = kind

\* The notes are indexed once the deletes are done.
AddsPhase(kind) == run.kind = kind /\ run.deleted = run.nd

\* str(e) of the exception an embedding provider raises: every provider puts
\* text before the cause, so the message is never empty (embeddings.py, lines
\* 115-124, 164-168, 210-213, 254-257).
EmbedError == "embedding error"

\* Variant: the failed note is counted as indexed too.
AccumulateNoteCountsFailed(r, t) ==
  IF t.pc = "err"
  THEN [ r EXCEPT !.errors = Append(@, [ path |-> t.path, error |-> EmbedError ]),
                  !.total_notes = @ + 1, !.i = @ + 1 ]
  ELSE [ r EXCEPT !.total_notes = @ + 1, !.total_chunks = @ + t.ret, !.i = @ + 1 ]

\* Sequential mode, index_vault lines 216-224 (incremental_update 558-566):
\* the chunk count is added to the totals and the progress is notified; an
\* exception is appended to errors
AccumulateNote(r, t) ==
  IF t.pc = "err"
  THEN [ r EXCEPT !.errors = Append(@, [ path |-> t.path, error |-> EmbedError ]),
                  !.i = @ + 1 ]
  ELSE [ r EXCEPT !.total_notes = @ + 1, !.total_chunks = @ + t.ret, !.i = @ + 1,
                  !.progress = Append(@, Progress("", t.path)) ]

\* Variant: the chunk count of index_note is not put into the result.
ProcessNoteNoChunks(t) ==
  IF t.pc = "err" THEN [ path |-> t.path, chunks |-> 0, error |-> EmbedError ]
  ELSE [ path |-> t.path, chunks |-> 0, error |-> "" ]

\* _index_note_batch.process_note, lines 154-162: the result dict of one note;
\* error is None (the empty string here) or str(e)
ProcessNote(t) ==
  IF t.pc = "err" THEN [ path |-> t.path, chunks |-> 0, error |-> EmbedError ]
  ELSE [ path |-> t.path, chunks |-> t.ret, error |-> "" ]

\* Variant: the error of a result is not recorded.
AccumulateResultDropsError(r, result) ==
  IF result.error # "" THEN [ r EXCEPT !.i = @ + 1 ]
  ELSE [ r EXCEPT !.total_notes = @ + 1, !.total_chunks = @ + result.chunks, !.i = @ + 1 ]

\* Pooled mode, index_vault lines 197-208 (incremental_update 539-550): a
\* result whose error is truthy is appended to errors, else it is counted;
\* the progress is notified for both
AccumulateResult(r, result) ==
  IF result.error # ""
  THEN [ r EXCEPT !.errors = Append(@, [ path |-> result.path, error |-> result.error ]),
                  !.i = @ + 1, !.progress = Append(@, Progress("", result.path)) ]
  ELSE [ r EXCEPT !.total_notes = @ + 1, !.total_chunks = @ + result.chunks, !.i = @ + 1,
                  !.progress = Append(@, Progress("", result.path)) ]

\* Sequential mode, index_vault lines 211-217 (incremental_update 553-559):
\* the calling thread calls index_note for the next note
NextNote(kind, path, content, mtime) ==
  /\ AddsPhase(kind)
  /\ ~IsExternalApiProvider
  /\ run.i < run.n
  /\ task[1].pc = "idle"
  /\ path \notin run.seen
  /\ InNotes(path, mtime)
  /\ task' = [ task EXCEPT ![1] = IndexTask(path, content, mtime) ]
  /\ run' = [ run EXCEPT !.seen = @ \cup { path },
                         !.notes = @ \cup { [ path |-> path, content |-> content,
                                               mtime |-> mtime ] } ]
  /\ UNCHANGED << provider, embedding_provider, batch_size, cmd, collExists, coll, out, pre, last, cleared >>

\* Sequential mode, index_vault lines 218-224 (incremental_update 560-566)
CollectNote(kind) ==
  /\ AddsPhase(kind)
  /\ ~IsExternalApiProvider
  /\ task[1].op = "index"
  /\ Finished(1)
  /\ run' = AccumulateNote(run, task[1])
  /\ task' = [ task EXCEPT ![1] = IdleTask ]
  /\ UNCHANGED << provider, embedding_provider, batch_size, cmd, collExists, coll, out, pre, last, cleared >>

\* The batches of k notes, with contents and mtimes of the given sets, that
\* can follow the notes drawn so far.
BatchesFrom(k, seen, contents, mtimes) ==
  UNION { { [ i \in 1..k |-> [ path |-> ps[i], content |-> cs[i], mtime |-> ms[i] ] ] :
              cs \in [ 1..k -> contents ], ms \in [ 1..k -> mtimes ] } :
          ps \in { a \in Arrangements(Paths \ seen, k) : Len(a) = k } }

Batches(k, seen) == BatchesFrom(k, seen, RunContents, RunMtimes)

\* Variant: all the remaining notes are handed to the pool at once.
SubmitBatchAll(kind, batch) ==
  /\ AddsPhase(kind)
  /\ IsExternalApiProvider
  /\ run.i < run.n
  /\ run.k = 0
  /\ AllIdle
  /\ Len(batch) = run.n - run.i
  /\ \A s \in 1..Len(batch) : InNotes(batch[s].path, batch[s].mtime)
  /\ task' = [ s \in Slots |->
                 IF s <= Len(batch)
                 THEN IndexTask(batch[s].path, batch[s].content, batch[s].mtime)
                 ELSE IdleTask ]
  /\ run' = [ run EXCEPT !.k = Len(batch),
                         !.seen = @ \cup { batch[s].path : s \in 1..Len(batch) },
                         !.notes = @ \cup Range(batch) ]
  /\ UNCHANGED << provider, embedding_provider, batch_size, cmd, collExists, coll, out, pre, last, cleared >>

\* Pooled mode, index_vault lines 193-195 (incremental_update 535-537) and
\* _index_note_batch lines 164-166: the next batch_size notes are handed to
\* the threads of a new pool
SubmitBatch(kind, batch) ==
  /\ AddsPhase(kind)
  /\ IsExternalApiProvider
  /\ run.i < run.n
  /\ run.k = 0
  /\ AllIdle
  /\ Len(batch) = Min(batch_size, run.n - run.i)
  /\ \A s \in 1..Len(batch) : InNotes(batch[s].path, batch[s].mtime)
  /\ task' = [ s \in Slots |->
                 IF s <= Len(batch)
                 THEN IndexTask(batch[s].path, batch[s].content, batch[s].mtime)
                 ELSE IdleTask ]
  /\ run' = [ run EXCEPT !.k = Len(batch),
                         !.seen = @ \cup { batch[s].path : s \in 1..Len(batch) },
                         !.notes = @ \cup Range(batch) ]
  /\ UNCHANGED << provider, embedding_provider, batch_size, cmd, collExists, coll, out, pre, last, cleared >>

RECURSIVE AccumulateAll(_, _, _)
AccumulateAll(r, results, s) ==
  IF s > Len(results) THEN r
  ELSE AccumulateAll(AccumulateResult(r, results[s]), results, s + 1)

\* Pooled mode: executor.map has returned the results of the whole batch, in
\* the order of the notes (_index_note_batch lines 165-168), and the loop over
\* the results adds them up (index_vault lines 197-208)
CollectBatch(kind) ==
  /\ AddsPhase(kind)
  /\ IsExternalApiProvider
  /\ run.k > 0
  /\ \A s \in 1..run.k : Finished(s)
  /\ run' = [ AccumulateAll(run, [ s \in 1..run.k |-> ProcessNote(task[s]) ], 1)
               EXCEPT !.k = 0 ]
  /\ task' = [ s \in Slots |-> IdleTask ]
  /\ UNCHANGED << provider, embedding_provider, batch_size, cmd, collExists, coll, out, pre, last, cleared >>

\* index_vault lines 226-230, incremental_update lines 568-573: the counts
\* and the errors are returned (n, nd, seen, failed, lost, okChunks, seenDel,
\* notes, done: history; progress: the notifications made during the call)
ReturnRun(kind) ==
  /\ AddsPhase(kind)
  /\ run.i = run.n
  /\ AllIdle
  /\ out' = [ op |-> kind, total_notes |-> run.total_notes,
              total_chunks |-> run.total_chunks, deleted |-> run.deleted,
              errors |-> run.errors, n |-> run.n, nd |-> run.nd, seen |-> run.seen,
              failed |-> run.failed, lost |-> run.lost, okChunks |-> run.okChunks,
              progress |-> run.progress, seenDel |-> run.seenDel, notes |-> run.notes,
              done |-> run.done ]
  /\ run' = Returned
  /\ UNCHANGED << provider, embedding_provider, batch_size, cmd, collExists, coll, task, pre, last, cleared >>

\* The steps of index_vault after its call.
IndexVault ==
  \/ \E p \in Paths, c \in RunContents, m \in RunMtimes : NextNote("index_vault", p, c, m)
  \/ CollectNote("index_vault")
  \/ \E k \in 1..MaxBatch : \E b \in Batches(k, run.seen) : SubmitBatch("index_vault", b)
  \/ CollectBatch("index_vault")
  \/ ReturnRun("index_vault")

\* The steps of incremental_update after its call.
IncrementalUpdate ==
  \/ \E p \in Paths : NextDelete(p)
  \/ CollectDelete
  \/ \E p \in Paths, c \in RunContents, m \in RunMtimes : NextNote("incremental_update", p, c, m)
  \/ CollectNote("incremental_update")
  \/ \E k \in 1..MaxBatch : \E b \in Batches(k, run.seen) : SubmitBatch("incremental_update", b)
  \/ CollectBatch("incremental_update")
  \/ ReturnRun("incremental_update")

\* ------------------------------------------------------------ specification

\* The store API called from one thread: a call returns before the next begins.
Next ==
  \/ \E p \in Paths, c \in Contents, m \in Mtimes : CallIndexNote(p, c, m)
  \/ \E p \in Paths : CallDeleteNote(p)
  \/ TaskStep(1)
  \/ ReturnIndexNote
  \/ ReturnDeleteNote
  \/ ClearIndex

Spec == Init /\ [][Next]_vars

\* The same calls, and the queries.
NextQuery ==
  \/ Next
  \/ GetStatus
  \/ \E n \in 1..MaxLimit, f \in FolderArgs : Search(n, f)
  \/ \E p \in Paths, n \in 0..MaxLimit : FindSimilar(p, n)
  \/ \E l \in CurrentNoteLists : DetectChangesCall(l)
  \/ TakeResult

SpecQuery == Init /\ [][NextQuery]_vars

\* The indexing runs, with the writes of the store API between them; the
\* threads of the pool take their steps in any order.
NextRun ==
  \/ \E n \in ListLengths : CallIndexVault(n)
  \/ \E n \in ListLengths, nd \in ListLengths : CallIncrementalUpdate(n, nd)
  \/ IndexVault
  \/ IncrementalUpdate
  \/ \E s \in Slots : TaskStep(s)
  \/ TakeResult
  \/ \E p \in Paths, c \in RunContents, m \in RunMtimes : CallIndexNote(p, c, m)
  \/ ReturnIndexNote
  \/ \E p \in Paths : CallDeleteNote(p)
  \/ ReturnDeleteNote
  \/ ClearIndex

SpecRun == InitAnyProvider /\ [][NextRun]_vars


\* --------------------------------------- embeddings.py: the network faults

\* What can go wrong with the request of an embed call: the endpoint cannot
\* be reached, no response within the deadline, a response with a non-2xx
\* status, a response whose body is not JSON.
Faults == { "unreachable", "deadline", "status", "malformed" }

\* The exception that leaves embed_documents on a fault.  Ollama, lines
\* 115-124: one except clause per httpx error; the ValueError of
\* response.json() (line 109) is not caught.  OpenAI lines 164-168, Google
\* lines 210-213, Cohere lines 254-257: "except Exception" turns whatever the
\* SDK raises into EmbeddingAPIError.
EmbedException(p, fault) ==
  IF p = "ollama"
  THEN CASE fault = "unreachable" -> "EmbeddingConnectionError"
         [] fault = "deadline"    -> "EmbeddingTimeoutError"
         [] fault = "status"      -> "EmbeddingAPIError"
         [] fault = "malformed"   -> "JSONDecodeError"
  ELSE "EmbeddingAPIError"

\* index_note, line 133: the request of the embedding function meets a fault
\* inside collection.add; nothing is inserted and the exception leaves
\* index_note
EmbedRaises(s, fault) ==
  /\ task[s].pc = "add"
  /\ chunk(task[s].content) # << >>
  /\ provider # "default"
  /\ task' = [ task EXCEPT ![s].pc = "err" ]
  /\ out' = [ op |-> "embed", provider |-> provider, fault |-> fault,
              raised |-> EmbedException(provider, fault) ]
  /\ run' = [ run EXCEPT !.done = Append(@, task[s].path) ]
  /\ UNCHANGED << provider, embedding_provider, batch_size, cmd, collExists, coll, pre, last, cleared >>

\* index_note called with each of the providers, with the faults of the
\* network.
NextEmbed ==
  \/ \E p \in Paths, c \in RunContents, m \in RunMtimes : CallIndexNote(p, c, m)
  \/ TaskStep(1)
  \/ \E fault \in Faults : EmbedRaises(1, fault)
  \/ ReturnIndexNote

SpecEmbed == InitAnyProvider /\ [][NextEmbed]_vars

\* ----------------------------- embeddings.py: the dimension of the Ollama provider

\* The lengths of the vectors in the responses of the Ollama server: data.get(
\* "embedding", []) is empty when the response has no vector.
VectorLengths == { 0, OllamaFallback, 1024 }

\* The response to the request for one document: a fault, or a vector.
Responses ==
  { [ fault |-> "none", embedding |-> l ] : l \in VectorLengths }
    \cup { [ fault |-> f, embedding |-> 0 ] : f \in Faults }

\* embed_documents, lines 102-124: the documents are sent one by one; a
\* fault ends the loop with its exception, after the vectors of the earlier
\* documents were received
RECURSIVE EmbedLoop(_, _, _)
EmbedLoop(ep, responses, i) ==
  IF i > Len(responses) THEN [ ep |-> ep, raised |-> "none", n |-> i - 1 ]
  ELSE IF responses[i].fault # "none"
       THEN [ ep |-> ep, raised |-> EmbedException("ollama", responses[i].fault),
              n |-> i - 1 ]
       ELSE EmbedLoop(Receive(ep, responses[i].embedding), responses, i + 1)

\* OllamaEmbeddingProvider.embed_documents(documents), called on the
\* provider object of the store (embed_query and __call__ delegate to it);
\* before, received: history of _dimension when the call began and of the
\* lengths of the vectors that the call received
EmbedDocuments(responses) ==
  /\ provider = "ollama"
  /\ run.kind = "none"
  /\ embedding_provider' = EmbedLoop(embedding_provider, responses, 1).ep
  /\ out' = [ op |-> "embed_documents",
              raised |-> EmbedLoop(embedding_provider, responses, 1).raised,
              before |-> embedding_provider.dimension,
              received |-> { responses[i].embedding :
                               i \in 1..EmbedLoop(embedding_provider, responses, 1).n } ]
  /\ UNCHANGED << provider, batch_size, cmd, collExists, coll, task, run, pre, last, cleared >>

\* The dimension property of the provider object is read.
ReadDimension ==
  /\ provider = "ollama"
  /\ run.kind = "none"
  /\ out' = [ op |-> "dimension", value |-> DimensionOf(embedding_provider) ]
  /\ UNCHANGED << provider, embedding_provider, batch_size, cmd, collExists, coll, task, run, pre, last, cleared >>

\* A store with the Ollama provider.
InitOllama ==
  /\ provider = "ollama"
  /\ batch_size = MaxBatch
  /\ InitStore

\* The embed calls of the Ollama provider, made directly and by index_note,
\* and the reads of its dimension.
NextDimension ==
  \/ \E responses \in UNION { [ 1..n -> Responses ] : n \in 0..MaxLen } :
       EmbedDocuments(responses)
  \/ ReadDimension
  \/ \E p \in Paths, c \in RunContents, m \in RunMtimes : CallIndexNote(p, c, m)
  \/ TaskStep(1)
  \/ ReturnIndexNote

SpecDimension == InitOllama /\ [][NextDimension]_vars

\* ------------------------------------------------- indexer.py: the commands

CmdKinds == { "full", "update" }

\* The contents of the notes of the vault: without text, or of one chunk.
CmdContents == { << >>, << "x" >> }

\* Variant: no provider needs a key.
ConfigRefusedNever(p, key) == FALSE

\* VectorConfig.validate_provider_api_keys (config.py, lines 149-164): a
\* remote provider without its API key raises VectorConfigError
ConfigRefused(p, key) == p \in { "openai", "google", "cohere" } /\ ~key

\* cmd_full lines 66-85, cmd_update lines 127-140: the configuration is
\* loaded and the store is constructed; VectorConfig refuses a remote provider
\* without its API key (config.py, lines 149-164) and the command returns 2.
\* cmd_full lines 83-85: with --force the index is cleared.
CmdStart(kind, force, key) ==
  /\ run.kind = "none"
  /\ cmd.pc \in { "none", "done" }
  /\ force => kind = "full"
  /\ IF ConfigRefused(provider, key)
     THEN /\ cmd' = [ NoCmd EXCEPT !.kind = kind, !.force = force, !.key = key,
                                   !.pc = "done", !.exit = 2, !.before = coll ]
          /\ UNCHANGED << collExists, coll, cleared >>
     ELSE /\ cmd' = [ NoCmd EXCEPT !.kind = kind, !.force = force, !.key = key,
                                   !.pc = "list", !.before = coll ]
          /\ IF force
             THEN collExists' = FALSE /\ coll' = {} /\ cleared' = TRUE
             ELSE UNCHANGED << collExists, coll, cleared >>
  /\ embedding_provider' = NewProvider
  /\ out' = NoOut
  /\ last' = NoLast
  /\ UNCHANGED << provider, batch_size, task, run, pre >>

\* fetch_all_notes lines 36-37, cmd_update lines 144-145: the .md files of
\* the vault are listed
CmdList(files) ==
  /\ cmd.pc = "list"
  /\ cmd' = [ cmd EXCEPT !.files = files, !.todo = files, !.pc = "fetch" ]
  /\ UNCHANGED << provider, embedding_provider, batch_size, collExists, coll, task, run, out, pre, last, cleared >>

\* client.list_files() raises an ObsidianAPIError: the command returns 3
\* (cmd_full lines 117-119, cmd_update lines 205-207)
CmdListFails ==
  /\ cmd.pc = "list"
  /\ cmd' = [ cmd EXCEPT !.pc = "done", !.exit = 3 ]
  /\ UNCHANGED << provider, embedding_provider, batch_size, collExists, coll, task, run, out, pre, last, cleared >>

\* fetch_all_notes lines 40-59, cmd_update lines 148-158: the next file is
\* read; the note is appended with its mtime (0 without stat), or the read
\* raises and the except clause goes on to the next file
CmdRead(path, ok, mtime) ==
  /\ cmd.pc = "fetch"
  /\ path \in cmd.todo
  /\ cmd' = IF ok
            THEN [ cmd EXCEPT !.todo = @ \ { path },
                              !.notes = [ q \in DOMAIN @ \cup { path } |->
                                            IF q = path THEN mtime ELSE @[q] ] ]
            ELSE [ cmd EXCEPT !.todo = @ \ { path }, !.unread = @ \cup { path } ]
  /\ UNCHANGED << provider, embedding_provider, batch_size, collExists, coll, task, run, out, pre, last, cleared >>

\* cmd_full lines 92-103: no note, return 0; else store.index_vault(notes)
CmdCallIndexVault ==
  /\ cmd.kind = "full"
  /\ cmd.pc = "fetch"
  /\ cmd.todo = {}
  /\ IF DOMAIN cmd.notes = {}
     THEN /\ cmd' = [ cmd EXCEPT !.pc = "done", !.exit = 0 ]
          /\ run' = run
     ELSE /\ cmd' = [ cmd EXCEPT !.pc = "index", !.adds = DOMAIN cmd.notes ]
          /\ run' = [ NoRun EXCEPT !.kind = "index_vault",
                                   !.n = Cardinality(DOMAIN cmd.notes) ]
  /\ UNCHANGED << provider, embedding_provider, batch_size, collExists, coll, task, out, pre, last, cleared >>

\* The current_notes list of cmd_update, in the order of the listing.
CmdCurrentNotes(order) ==
  [ i \in 1..Len(order) |-> [ path |-> order[i], mtime |-> cmd.notes[order[i]] ] ]

\* cmd_update lines 161-193: detect_changes; without a change return 0, else
\* store.incremental_update(notes_to_add, changes["deleted"])
CmdDetect ==
  /\ cmd.kind = "update"
  /\ cmd.pc = "fetch"
  /\ cmd.todo = {}
  /\ collExists' = TRUE
  /\ \E order \in Orderings(DOMAIN cmd.notes) :
     \E indexedOrder \in Orderings(DOMAIN IndexedNotesMetadata(coll)) :
       LET changes == DetectChanges(coll, CmdCurrentNotes(order), indexedOrder)
           adds == { q \in DOMAIN cmd.notes :
                       q \in Range(changes.new) \/ q \in Range(changes.modified) }
       IN  IF changes.new = << >> /\ changes.modified = << >> /\ changes.deleted = << >>
           THEN /\ cmd' = [ cmd EXCEPT !.pc = "done", !.exit = 0 ]
                /\ run' = run
           ELSE /\ cmd' = [ cmd EXCEPT !.pc = "index", !.adds = adds,
                                       !.dels = Range(changes.deleted) ]
                /\ run' = [ NoRun EXCEPT !.kind = "incremental_update",
                                         !.n = Cardinality(adds),
                                         !.nd = Len(changes.deleted) ]
  /\ UNCHANGED << provider, embedding_provider, batch_size, coll, task, out, pre, last, cleared >>

\* cmd_full lines 105-115, cmd_update lines 195-203: the counts of the result
\* are printed and the command returns 0
CmdReport ==
  /\ cmd.pc = "index"
  /\ run.kind = "returned"
  /\ cmd' = [ cmd EXCEPT !.pc = "done", !.exit = 0, !.result = out ]
  /\ run' = NoRun
  /\ out' = NoOut
  /\ UNCHANGED << provider, embedding_provider, batch_size, collExists, coll, task, pre, last, cleared >>

\* The steps of the run that a command started: the notes have the mtimes
\* that the command read.
CmdRun(kind) ==
  \/ \E p \in Paths : NextDelete(p)
  \/ CollectDelete
  \/ \E p \in Paths, c \in CmdContents, m \in Mtimes : NextNote(kind, p, c, m)
  \/ CollectNote(kind)
  \/ /\ AddsPhase(kind) /\ IsExternalApiProvider /\ run.k = 0 /\ AllIdle
     /\ \E b \in BatchesFrom(Min(batch_size, run.n - run.i), run.seen, CmdContents, Mtimes) :
          SubmitBatch(kind, b)
  \/ CollectBatch(kind)
  \/ ReturnRun(kind)

\* The full and the update command of pyobsidian-index, one after another.
NextCmd ==
  \/ \E kind \in CmdKinds, force \in BOOLEAN, key \in BOOLEAN : CmdStart(kind, force, key)
  \/ \E files \in SUBSET Paths : CmdList(files)
  \/ CmdListFails
  \/ \E p \in Paths, ok \in BOOLEAN, m \in Mtimes : CmdRead(p, ok, m)
  \/ CmdCallIndexVault
  \/ CmdDetect
  \/ CmdRun("index_vault")
  \/ CmdRun("incremental_update")
  \/ \E s \in Slots : TaskStep(s)
  \/ CmdReport

SpecCmd == InitAnyProvider /\ [][NextCmd]_vars

\* A new ObsidianVectorStore is constructed on the same chroma_path and
\* collection_name with another vector_config.provider (__init__, lines 41-47):
\* the records of the persistent client stay as they are.
Reopen(p) ==
  /\ run.kind = "none"
  /\ p # provider
  /\ provider' = p
  /\ embedding_provider' = NewProvider
  /\ last' = NoLast
  /\ UNCHANGED << batch_size, cmd, collExists, coll, task, run, out, pre, cleared >>

\* The writes of the store API, made by stores of different providers that
\* follow one another on the same collection.
NextReopen ==
  \/ \E p \in Paths, c \in RunContents, m \in RunMtimes : CallIndexNote(p, c, m)
  \/ \E p \in Paths : CallDeleteNote(p)
  \/ TaskStep(1)
  \/ AddRejected(1)
  \/ ReturnIndexNote
  \/ ReturnDeleteNote
  \/ ClearIndex
  \/ \E p \in Providers : Reopen(p)

SpecReopen == InitAnyProvider /\ [][NextReopen]_vars


\* ------------------------------------------------------------------ claims

\* The index_note call on the calling thread has returned normally.
IndexNoteReturned == run.kind = "index_note" /\ task[1].pc = "ok"

\* C1: when index_note(p, c, m) returns normally it returns n, the number of
\* chunks the chunker produced for c, and the records of p are then exactly n
\* records with ids p::0 .. p::(n-1), chunk_index i, total_chunks n and mtime m
\* (none when n = 0), whatever p had before; the records of every other path
\* are those of before the call.
C1_IndexNoteReplaces ==
  IndexNoteReturned =>
    LET p == task[1].path
        n == task[1].ret
        recs == PathRecs(coll, p)
    IN  /\ n = Len(chunk(task[1].content))
        /\ Cardinality(recs) = n
        /\ { r.id : r \in recs } = { ChunkId(p, i) : i \in 0..(n - 1) }
        /\ \A r \in recs : /\ r.id = ChunkId(p, r.chunk_index)
                           /\ r.total_chunks = n
                           /\ r.mtime = task[1].mtime
        /\ coll \ recs = pre \ PathRecs(pre, p)

\* A note of two chunks and another note were indexed; the first is indexed
\* again with one chunk and a later mtime.
C1_Witness ==
  /\ IndexNoteReturned
  /\ task[1].ret = 1
  /\ task[1].mtime = MaxMtime
  /\ Cardinality(PathRecs(pre, task[1].path)) = 2
  /\ \A r \in PathRecs(pre, task[1].path) : r.mtime = 0
  /\ pre \ PathRecs(pre, task[1].path) # {}

\* C2: each (path, chunk_index) pair occurs at most once in the collection,
\* all chunks of a path carry the same total_chunks, and the chunk_index
\* values of a path are exactly 0 .. total_chunks-1.
C2_ChunkSetsConsistent ==
  /\ \A r1, r2 \in coll :
       r1.path = r2.path =>
         /\ r1.chunk_index = r2.chunk_index => r1 = r2
         /\ r1.total_chunks = r2.total_chunks
  /\ \A r \in coll :
       { x.chunk_index : x \in PathRecs(coll, r.path) } = 0..(r.total_chunks - 1)

\* A pooled index_vault has returned: one note failed to embed, the other
\* replaced a note of two chunks by one chunk.
C2_Witness ==
  /\ out.op = "index_vault"
  /\ IsExternalApiProvider
  /\ out.lost # {}
  /\ out.total_notes = 1
  /\ out.total_chunks = 1
  /\ coll # {}

\* C3: at every step of index_note(p, ...) the collection never holds chunks
\* of the old and of the new version of p together: when the new chunks are
\* about to be inserted p has no chunk left, and once they are inserted the
\* chunks of p are exactly the new ones.
C3_NeverOldAndNew ==
  \A s \in Slots :
    task[s].op = "index" =>
      /\ task[s].pc = "add" => PathRecs(coll, task[s].path) = {}
      /\ task[s].pc = "ok" =>
           /\ Cardinality(PathRecs(coll, task[s].path)) = task[s].ret
           /\ \A r \in PathRecs(coll, task[s].path) :
                /\ r.total_chunks = task[s].ret
                /\ r.mtime = task[s].mtime
                /\ r.doc = chunk(task[s].content)[r.chunk_index + 1]

\* In a pooled run a thread has replaced the chunks of an indexed note while
\* the other thread is between its delete and its insert.
C3_Witness ==
  /\ IsExternalApiProvider
  /\ run.kind = "index_vault"
  /\ task[1].op = "index" /\ task[1].pc = "ok" /\ task[1].ids # {} /\ task[1].ret = 2
  /\ task[2].op = "index" /\ task[2].pc = "add" /\ task[2].ids # {}

\* C4, the reading of the index that the claim names: the indexed paths are
\* those with a chunk_index-0 record, each with the mtime of that record.
C4_IndexedPaths(c) == { p \in Paths : \E r \in c : r.path = p /\ r.chunk_index = 0 }

C4_IndexedMtime(c, p) == (CHOOSE r \in c : r.path = p /\ r.chunk_index = 0).mtime

C4_CurrentPaths(l) == { l[i].path : i \in 1..Len(l) }

C4_CurrentMtime(l, p) == (CHOOSE e \in Range(l) : e.path = p).mtime

C4_NoRepeat(l) == \A i, j \in 1..Len(l) : l[i] = l[j] => i = j

\* C4: detect_changes returns three pairwise disjoint lists: new is exactly
\* the current paths that are not indexed, modified exactly the paths in both
\* whose current mtime is strictly greater than the indexed one, deleted
\* exactly the indexed paths that are not current; a path in both whose
\* current mtime is equal or smaller is in none; the index is left unchanged.
C4_DetectChangesClassifies ==
  out.op = "detect_changes" =>
    LET ch == out.changes
        cur == C4_CurrentPaths(out.current)
        idx == C4_IndexedPaths(coll)
    IN  /\ C4_NoRepeat(ch.new) /\ C4_NoRepeat(ch.modified) /\ C4_NoRepeat(ch.deleted)
        /\ Range(ch.new) \cap Range(ch.modified) = {}
        /\ Range(ch.new) \cap Range(ch.deleted) = {}
        /\ Range(ch.modified) \cap Range(ch.deleted) = {}
        /\ Range(ch.new) = cur \ idx
        /\ Range(ch.modified) =
             { p \in cur \cap idx : C4_CurrentMtime(out.current, p) > C4_IndexedMtime(coll, p) }
        /\ Range(ch.deleted) = idx \ cur
        /\ \A p \in cur \cap idx :
             C4_CurrentMtime(out.current, p) <= C4_IndexedMtime(coll, p) =>
               p \notin Range(ch.new) \cup Range(ch.modified) \cup Range(ch.deleted)
        /\ coll = out.before

\* Two notes are indexed; one is current with a later mtime, the other with
\* the mtime it was indexed with.
C4_Witness ==
  /\ out.op = "detect_changes"
  /\ Len(out.changes.modified) = 1
  /\ out.changes.new = << >>
  /\ out.changes.deleted = << >>
  /\ Len(out.current) = 2
  /\ \E p \in C4_IndexedPaths(coll) \cap C4_CurrentPaths(out.current) :
       /\ C4_CurrentMtime(out.current, p) = C4_IndexedMtime(coll, p)
       /\ Cardinality(PathRecs(coll, p)) = 2

\* The paths of the entries that the returned errors list holds for path p.
ErrorsOf(errors, p) == { i \in 1..Len(errors) : errors[i].path = p }

\* C5: when the embedding fails during index_note(p, ...) inside index_vault
\* or incremental_update, p has no chunk afterwards (its old chunks are gone,
\* no new one is inserted), the returned errors list has one entry with path
\* p, and the run has gone on to index the remaining notes.
C5_EmbeddingFailureIsPerNote ==
  /\ \A s \in Slots :
       (run.kind \in RunKinds /\ task[s].op = "index" /\ task[s].pc = "err") =>
         PathRecs(coll, task[s].path) = {}
  /\ out.op \in RunKinds =>
       /\ \A p \in out.failed :
            /\ PathRecs(coll, p) = {}
            /\ Cardinality(ErrorsOf(out.errors, p)) = 1
       /\ Cardinality(out.seen) = out.n

\* A sequential run has returned: the embedding of a note that had chunks
\* failed, and another note of the list was indexed.
C5_Witness ==
  /\ out.op \in RunKinds
  /\ ~IsExternalApiProvider
  /\ out.lost # {}
  /\ out.n = 2
  /\ out.total_notes = 1
  /\ out.total_chunks = 2

\* C6: index_vault attempts every note and returns total_notes + len(errors)
\* = N, with the path of each failed note in errors exactly once and
\* total_chunks the sum of the chunk counts of the notes that succeeded, in
\* the sequential and in the pooled mode; incremental_update returns added +
\* len(errors) = len(notes_to_add) likewise.
C6_RunCountsAddUp ==
  out.op \in RunKinds =>
    /\ Cardinality(out.seen) = out.n
    /\ out.total_notes + Len(out.errors) = out.n
    /\ { out.errors[i].path : i \in 1..Len(out.errors) } = out.failed
    /\ Len(out.errors) = Cardinality(out.failed)
    /\ out.total_chunks = out.okChunks

\* A pooled incremental_update with batch_size 1 has returned: of two notes,
\* each in a batch of its own, one failed and the other was indexed with two
\* chunks.
C6_Witness ==
  /\ out.op = "incremental_update"
  /\ IsExternalApiProvider
  /\ batch_size = 1
  /\ out.n = 2
  /\ Len(out.errors) = 1
  /\ out.total_notes = 1
  /\ out.total_chunks = 2

\* C7: the result of find_similar(p, limit) has no entry with path p and no
\* path more than once.
C7_SimilarExcludesSourceAndRepeats ==
  (out.op = "find_similar" /\ out.raised = "none") =>
    /\ \A i \in 1..Len(out.results) : out.results[i].path # out.path
    /\ \A i, j \in 1..Len(out.results) :
         out.results[i].path = out.results[j].path => i = j

\* find_similar with limit 2 on an index where the source note and the other
\* note have two chunks each returned the other note.
C7_Witness ==
  /\ out.op = "find_similar"
  /\ out.raised = "none"
  /\ Len(out.results) = 1
  /\ Cardinality(PathRecs(coll, out.path)) = 2
  /\ Cardinality(coll) = 4

\* C8: search raises IndexNotFoundError exactly when the collection holds no
\* chunk, so also after clear_index with nothing inserted since (the
\* collection is created again, empty); on a collection with chunks of which
\* none matches, the query returns the empty list.
C8_SearchIndexEmpty ==
  /\ cleared => coll = {}
  /\ out.op = "search" =>
       /\ out.raised = "IndexNotFoundError" <=> Cardinality(coll) = 0
       /\ cleared => (out.raised = "IndexNotFoundError" /\ collExists)
       /\ (coll # {} /\ out.raised # "EmbeddingProviderError") =>
            /\ out.raised = "none"
            /\ { r \in coll : out.folder.given /\ out.folder.value # << >>
                                => r.folder = out.folder.value } = {}
                 => out.results = << >>

\* A search on a collection with chunks, none of them in the folder asked
\* for, returned the empty list.
C8_Witness ==
  /\ out.op = "search"
  /\ out.raised = "none"
  /\ out.results = << >>
  /\ coll # {}
  /\ out.folder.given

RECURSIVE C9_Sum(_, _)
C9_Sum(c, ps) ==
  IF ps = {} THEN 0
  ELSE LET p == CHOOSE x \in ps : TRUE
       IN  Cardinality(PathRecs(c, p)) + C9_Sum(c, ps \ { p })

\* C9: get_status reports total_documents equal to the number of chunk
\* records and total_notes equal to the number of distinct paths among them,
\* and leaves the chunk records unchanged.
C9_StatusCounts ==
  out.op = "get_status" =>
    /\ out.raised = "none"
    /\ out.status.total_documents = C9_Sum(coll, Paths)
    /\ out.status.total_notes = Cardinality({ p \in Paths : PathRecs(coll, p) # {} })
    /\ coll = out.before

\* C11: all embeddings stored in the collection were produced by the same
\* provider, with the same dimension: a store of another provider than the
\* one that produced the chunks of the collection adds no vectors to it.
C11_OneProviderPerCollection ==
  \A r1, r2 \in coll : r1.embedding = r2.embedding

\* C12: when reading a note fails in a full or update run, the run goes on
\* with the other notes and the failure of that note is an entry of the error
\* list that the run reports.
C12_ReadFailureReported ==
  (cmd.pc = "done" /\ cmd.exit = 0) =>
    /\ cmd.unread \cup DOMAIN cmd.notes = cmd.files
    /\ \A p \in cmd.unread :
         /\ cmd.result.op \in RunKinds
         /\ \E i \in 1..Len(cmd.result.errors) : cmd.result.errors[i].path = p

\* C13: with provider openai, google or cohere and no API key, the full and
\* the update command return 2 when the configuration is loaded: no file is
\* listed or read, no store call is made and the index is unchanged.
C13_MissingKeyIsConfigError ==
  (cmd.kind \in CmdKinds /\ IsExternalApiProvider /\ ~cmd.key) =>
    /\ cmd.pc = "done"
    /\ cmd.exit = 2
    /\ cmd.files = {} /\ cmd.notes = << >> /\ cmd.unread = {}
    /\ run.kind = "none" /\ AllIdle
    /\ coll = cmd.before

\* The full command with --force, started without the API key on an index
\* with chunks, has returned 2.
C13_Witness ==
  /\ cmd.kind = "full" /\ cmd.force
  /\ IsExternalApiProvider /\ ~cmd.key
  /\ cmd.exit = 2
  /\ coll # {}

\* C18: when the embedding fails for every note of a full run (N >= 1 notes,
\* none indexed, N errors), the full command does not return 0.
C18_AllFailedIsFatal ==
  ( /\ cmd.kind = "full" /\ cmd.pc = "done"
    /\ cmd.result.op = "index_vault"
    /\ cmd.result.n >= 1
    /\ cmd.result.total_notes = 0
    /\ Len(cmd.result.errors) = cmd.result.n ) => cmd.exit # 0

\* C14: for every distance d that search or find_similar converts, the score
\* is clamp(1 - d, 0, 1) rounded to 4 decimal places: it lies in [0, 1], it
\* is at most half a ten-thousandth away from the clamped value, d = 0 gives
\* 1 and every d >= 1 gives 0.
C14_ScoreIsClampedAndRounded ==
  out.op = "score" =>
    LET clamped == IF out.distance >= DistanceUnits THEN 0
                   ELSE IF out.distance <= 0 THEN DistanceUnits
                   ELSE DistanceUnits - out.distance
    IN  /\ out.score \in 0..ScoreUnits
        /\ 10 * out.score - clamped \in -5..5
        /\ out.distance = 0 => out.score = ScoreUnits
        /\ out.distance >= DistanceUnits => out.score = 0

\* find_similar converted a distance between 0 and 1 whose score was rounded
\* up to the next ten-thousandth.
C14_Witness ==
  /\ out.op = "score"
  /\ out.site = "find_similar"
  /\ out.distance > 0 /\ out.distance < DistanceUnits
  /\ 10 * out.score > DistanceUnits - out.distance

\* C15: clear_index removes every chunk of the collection and raises no
\* error when the collection does not exist; after it, with nothing indexed
\* since, the collection is as after one clear_index however often it was
\* called, and get_status reports 0 documents and 0 notes.
C15_ClearIndexEmpties ==
  cleared =>
    /\ coll = {}
    /\ out.op = "get_status" =>
         /\ out.raised = "none"
         /\ out.status.total_documents = 0
         /\ out.status.total_notes = 0

\* The error that search and find_similar raise on an empty index.
C16_IndexEmpty == "IndexNotFoundError"

\* C16: on a non-empty index find_similar(p) raises an error when p has no
\* chunk_index-0 record, and that error is another one than the error of an
\* empty index; otherwise it returns, with the stored embedding of that
\* record as the query vector.
C16_NoteNotIndexedIsDistinct ==
  (out.op = "find_similar" /\ coll # {}) =>
    IF SourceChunks(coll, out.path) = {}
    THEN out.raised # "none" /\ out.raised # C16_IndexEmpty
    ELSE out.raised = "none" /\ out.query = ChunkId(out.path, 0)

\* C17: for the self-hosted provider and the three remote API providers,
\* embed reports an unreachable endpoint as a connection failure, a missed
\* deadline as a timeout and a non-2xx or malformed response as an API error.
C17_FaultsAreDistinguished ==
  out.op = "embed" =>
    out.raised = CASE out.fault = "unreachable" -> "EmbeddingConnectionError"
                   [] out.fault = "deadline"    -> "EmbeddingTimeoutError"
                   [] OTHER                     -> "EmbeddingAPIError"

\* C19: for every folder value f given as the filter of search, the empty
\* string of the notes without parent folder included, every result has the
\* folder f.
C19_FolderFilterIsExact ==
  (out.op = "search" /\ out.raised = "none" /\ out.folder.given) =>
    \A i \in 1..Len(out.results) : out.results[i].folder = out.folder.value

\* The place of the best-ranked chunk of a path among the fetched candidates.
C20_FirstOf(ranked, path) ==
  CHOOSE j \in 1..Len(ranked) :
    ranked[j].path = path /\ \A k \in 1..(j - 1) : ranked[k].path # path

\* C20: for every limit >= 0, find_similar(p, limit) fetches the min(limit +
\* 10, 60) nearest chunks, returns at most limit results, in rank order, and
\* each result is the best-ranked chunk of its path among the candidates.
C20_SimilarOverfetchAndTruncate ==
  (out.op = "find_similar" /\ out.raised = "none") =>
    /\ Len(out.ranked) = Min(Min(out.n + SimilarExtra, SimilarCap), Cardinality(coll))
    /\ Len(out.results) <= out.n
    /\ \A i \in 1..Len(out.results) :
         /\ \E j \in 1..Len(out.ranked) : out.ranked[j].path = out.results[i].path
         /\ out.results[i] = ResultOf(out.ranked[C20_FirstOf(out.ranked, out.results[i].path)])
    /\ \A i, k \in 1..Len(out.results) :
         i < k => C20_FirstOf(out.ranked, out.results[i].path)
                    < C20_FirstOf(out.ranked, out.results[k].path)

\* The records that index_note leaves for a note that was indexed.
ChunksOfNote(c, note) ==
  /\ Cardinality(PathRecs(c, note.path)) = Len(chunk(note.content))
  /\ \A r \in PathRecs(c, note.path) :
       /\ r.mtime = note.mtime
       /\ r.total_chunks = Len(chunk(note.content))
       /\ r.doc = chunk(note.content)[r.chunk_index + 1]

\* C21: in incremental_update every delete_note call for the paths of
\* notes_to_delete has completed before the first index_note call for
\* notes_to_add starts, in the sequential and in the pooled mode; so a path
\* listed in both arguments, whose note was indexed without error, ends the
\* run with the chunks of its note.
C21_DeletesBeforeAdds ==
  /\ run.kind = "incremental_update" =>
       \A s \in Slots :
         /\ task[s].op = "index" =>
              /\ run.deleted = run.nd
              /\ Cardinality(run.seenDel) = run.nd
              /\ \A t \in Slots : task[t].op # "delete"
         /\ task[s].op = "delete" => (run.seen = {} /\ run.i = 0)
  /\ out.op = "incremental_update" =>
       \A note \in out.notes :
         (note.path \in out.seenDel /\ note.path \notin out.failed) =>
           ChunksOfNote(coll, note)

\* A pooled incremental_update has returned: a path was in notes_to_delete
\* and in notes_to_add, and it has the two chunks of its note.
C21_Witness ==
  /\ out.op = "incremental_update"
  /\ IsExternalApiProvider
  /\ \E note \in out.notes :
       /\ note.path \in out.seenDel
       /\ note.path \notin out.failed
       /\ Cardinality(PathRecs(coll, note.path)) = 2

\* C22: an indexing run processes its notes through the worker pool for
\* every provider that needs a network round-trip per call (ollama, openai,
\* google, cohere), and one after another on the calling thread only for the
\* in-process default provider.
C22_PoolForNetworkProviders ==
  \A s \in Slots :
    (run.kind \in RunKinds /\ task[s].op = "index") =>
      (run.k > 0 <=> provider # "default")

\* The paths of the notes for which the progress was notified, in the order
\* of the notifications.
C23_Notified(progress) ==
  LET indexed == SelectSeq(progress, LAMBDA e : e.prefix = "")
  IN  [ i \in 1..Len(indexed) |-> indexed[i].path ]

\* C23: within a batch processed by the worker pool, the progress
\* notifications are emitted in the order in which the workers complete their
\* notes.
C23_ProgressInCompletionOrder ==
  (out.op \in RunKinds /\ IsExternalApiProvider) =>
    C23_Notified(out.progress) = out.done

\* C24: during a pooled index_vault or incremental_update run the number of
\* index_note calls in progress never exceeds batch_size: the notes are
\* submitted in batches of batch_size (the last one may be shorter), and a
\* batch is submitted only after every note of the previous one has finished.
C24_PoolIsBounded ==
  (run.kind \in RunKinds /\ IsExternalApiProvider) =>
    LET held == { s \in Slots : task[s].op = "index" }
    IN  /\ Cardinality(held) <= batch_size
        /\ held = 1..run.k
        /\ run.k > 0 =>
             /\ run.k = Min(batch_size, run.n - run.i)
             /\ run.i % batch_size = 0
             /\ Cardinality(run.seen) = run.i + run.k
        /\ run.k = 0 => Cardinality(run.seen) = run.i

\* A pooled run of two notes with batch_size 1: the first note has finished
\* and was collected, the second is in progress.
C24_Witness ==
  /\ run.kind \in RunKinds
  /\ IsExternalApiProvider
  /\ batch_size = 1
  /\ run.n = 2 /\ run.i = 1 /\ run.k = 1
  /\ task[1].op = "index" /\ task[1].pc = "add"

\* C25: for the Ollama provider, dimension is the fallback 768 in every
\* state before an embed call has received a non-empty vector; once the first
\* non-empty vector was received it is the length of that vector, and no
\* later embed call, successful or failed, changes it.
C25_DimensionIsFirstVector ==
  /\ embedding_provider.dimension = embedding_provider.first
  /\ DimensionOf(embedding_provider) =
       IF embedding_provider.first = 0 THEN OllamaFallback ELSE embedding_provider.first
  /\ out.op = "dimension" =>
       out.value = IF embedding_provider.first = 0 THEN OllamaFallback
                   ELSE embedding_provider.first
  /\ (out.op = "embed_documents" /\ out.before # 0) =>
       embedding_provider.dimension = out.before

\* An embed call that failed at a later document, after a vector of another
\* length than the remembered one was received for an earlier one.
C25_Witness ==
  /\ out.op = "embed_documents"
  /\ out.raised # "none"
  /\ out.before = 1024
  /\ out.received = { OllamaFallback }
  /\ embedding_provider.dimension = 1024

\* The update command has returned 0 and its run, if it made one, reported
\* no error.
UpdateWithoutErrors ==
  /\ cmd.kind = "update" /\ cmd.pc = "done" /\ cmd.exit = 0
  /\ cmd.result.op = "incremental_update" => cmd.result.errors = << >>

\* C26: after an update run (detect_changes on the current notes, then
\* incremental_update of the new and modified notes and of the deleted
\* paths) that reports no errors, a second detect_changes on the same current
\* notes returns empty new, modified and deleted lists, whatever the notes
\* are, those with empty or whitespace-only content included.
C26_UpdateConverges ==
  UpdateWithoutErrors =>
    \A order \in Orderings(DOMAIN cmd.notes) :
    \A indexedOrder \in Orderings(DOMAIN IndexedNotesMetadata(coll)) :
      LET changes == DetectChanges(coll, CmdCurrentNotes(order), indexedOrder)
      IN  changes.new = << >> /\ changes.modified = << >> /\ changes.deleted = << >>

\* C27: in an update run, a note that the repository still lists but whose
\* read fails during that run keeps its indexed chunks: only paths absent
\* from the listing are classified as deleted and removed from the index.
C27_UnreadNoteKeepsChunks ==
  (cmd.kind = "update" /\ cmd.pc \in { "index", "done" }) =>
    /\ cmd.dels \cap cmd.files = {}
    /\ cmd.pc = "done" =>
         \A p \in cmd.unread : PathRecs(coll, p) = PathRecs(cmd.before, p)

\* C30: after a full indexing run that reports no errors, with or without
\* --force, every path of the index is the path of a note of the repository:
\* no chunk of a note that was deleted from the repository is left.
C30_FullLeavesNoStalePath ==
  ( /\ cmd.kind = "full" /\ cmd.pc = "done" /\ cmd.exit = 0
    /\ cmd.result.op = "index_vault"
    /\ cmd.result.errors = << >> ) =>
    PathsOf(coll) \subseteq cmd.files

\* Sequential processing of a list of notes with pairwise distinct paths, of
\* which those with a path in failed fail to embed: the notes are taken one
\* after another, each index_note call runs from its first to its last step
\* before the next begins, and the results are added up as the sequential
\* mode does.
RECURSIVE C28_Sequential(_, _, _, _)
C28_Sequential(c, r, notes, failed) ==
  IF notes = {} THEN [ coll |-> c, run |-> r ]
  ELSE LET note == CHOOSE x \in notes : TRUE
           chunks == chunk(note.content)
           fails == note.path \in failed
           kept == CollectionDelete(c, IdsOfPath(c, note.path))
           t == [ IndexTask(note.path, note.content, note.mtime) EXCEPT
                    !.pc = IF fails THEN "err" ELSE "ok",
                    !.ret = IF fails THEN 0 ELSE Len(chunks) ]
       IN  C28_Sequential(
             IF fails \/ chunks = << >> THEN kept
             ELSE CollectionAdd(kept, NewRecords(note.path, chunks, note.mtime, provider)),
             AccumulateNote(r, t), notes \ { note }, failed)

\* C28: for every list of notes with pairwise distinct paths and every set of
\* notes whose embedding fails, index_vault in pooled mode, for every
\* batch_size and every interleaving of the workers, ends with the same
\* collection and returns the same total_notes, total_chunks and set of
\* errored paths as sequential processing of the list; no two workers operate
\* on the same path at the same time.
C28_PooledEqualsSequential ==
  /\ run.kind = "index_vault" =>
       \A s, t \in Slots :
         (s # t /\ task[s].op = "index" /\ task[t].op = "index") =>
           task[s].path # task[t].path
  /\ (cmd.kind = "full" /\ cmd.pc = "done" /\ cmd.result.op = "index_vault") =>
       LET start == IF cmd.force THEN {} ELSE cmd.before
           seq == C28_Sequential(start, NoRun, cmd.result.notes, cmd.result.failed)
       IN  /\ coll = seq.coll
           /\ cmd.result.total_notes = seq.run.total_notes
           /\ cmd.result.total_chunks = seq.run.total_chunks
           /\ { cmd.result.errors[i].path : i \in 1..Len(cmd.result.errors) }
                = { seq.run.errors[i].path : i \in 1..Len(seq.run.errors) }

\* A pooled full run of two notes that both had chunks: the second worker
\* ended before the first, one note failed to embed and the other was indexed.
C28_Witness ==
  /\ cmd.kind = "full" /\ cmd.pc = "done" /\ ~cmd.force
  /\ IsExternalApiProvider
  /\ cmd.result.op = "index_vault"
  /\ cmd.result.n = 2
  /\ cmd.result.lost # {}
  /\ cmd.result.total_chunks = 1
  /\ C23_Notified(cmd.result.progress) # cmd.result.done
  /\ Cardinality(PathsOf(cmd.before)) = 2

\* C29: a note whose indexing failed in an update run, its error reported, is
\* classified as new or modified by the next detect_changes, as long as it is
\* still among the current notes with the same or a later mtime.
C29_FailedNoteIsRetried ==
  (cmd.kind = "update" /\ cmd.pc = "done" /\ cmd.result.op = "incremental_update") =>
    \A e \in Range(cmd.result.errors) :
    \A l \in CurrentNoteLists :
      (\E i \in 1..Len(l) : l[i].path = e.path /\ l[i].mtime >= cmd.notes[e.path]) =>
        \A indexedOrder \in Orderings(DOMAIN IndexedNotesMetadata(coll)) :
          LET changes == DetectChanges(coll, l, indexedOrder)
          IN  e.path \in Range(changes.new) \cup Range(changes.modified)

\* An update run has returned: the embedding of a modified note, which had
\* chunks, failed, and another note was indexed.
C29_Witness ==
  /\ cmd.kind = "update" /\ cmd.pc = "done"
  /\ cmd.result.op = "incremental_update"
  /\ Len(cmd.result.errors) = 1
  /\ cmd.result.total_notes = 1
  /\ cmd.result.total_chunks = 1
  /\ \A e \in Range(cmd.result.errors) : PathRecs(cmd.before, e.path) # {}

\* C10: a second index_note with the same path, content and mtime returns
\* the same chunk count, and leaves the collection as it was after the first.
C10_ReindexIdempotent ==
  (IndexNoteReturned /\ SameCall(last, task[1].path, task[1].content, task[1].mtime)) =>
    /\ task[1].ret = last.ret
    /\ coll = last.coll

\* The second of two equal index_note calls of a note of two chunks has returned.
C10_Witness ==
  /\ IndexNoteReturned
  /\ SameCall(last, task[1].path, task[1].content, task[1].mtime)
  /\ task[1].ret = 2
  /\ task[1].ids # {}

=============================================================================
